---- MODULE Spec2Model ----
(***************************************************************************)
(* Recent-tab tracker of the tab-switch extension (src/src/background.ts,  *)
(* the second, current copy of the service worker, lines 134-300).         *)
(*                                                                         *)
(* The service worker is a set of async event listeners over one table in  *)
(* chrome.storage.session.  Every listener is modelled step by step: one   *)
(* action per await (storage read, storage write, tabs.get, tabs.query,    *)
(* tabs.update), so that a listener is a little process with a program     *)
(* counter and its local variables.  The browser (tab strips, active tabs, *)
(* the event queue towards the worker) is the environment.                 *)
(***************************************************************************)
EXTENDS Integers, Sequences, FiniteSets, TLC

\* ---------------------------------------------------------------- bounds
NumWindows == 2        \* windows of the browser
NumTabs == 5           \* tabs of window 1 in the largest layout
MaxGestures == 3       \* gestures of the user in a run that counts them
MaxQueue == 1          \* user events the browser queues towards the worker

\* ------------------------------------------------------ program constants
MaxRecent == 4         \* "Keep only the four most recent tabs"

Windows == 1..NumWindows
Tabs == 1..(NumTabs + 1)
NoTab == 0             \* an undefined / falsy tab or window id
Null == 0 - 1          \* activeTabIndex === null

VARIABLES
    storage,         \* chrome.storage.session[STORAGE_KEY]: windowId -> tab ids
    activeTabIndex,  \* the module-level hint, a tab index or Null
    tabsOf,          \* browser: window -> its tab strip (position = index + 1)
    activeTab,       \* browser: window -> its active tab, NoTab if none
    events,          \* browser -> worker: events not yet delivered
    handlers,        \* the listener invocations in flight, one per slot
    done,            \* observation: the invocation that returned in the last step
    last,            \* observation: the invocation that returned most recently
    toggle,          \* observation: progress of a switch / switch-back round trip
    watch,           \* which of the observations last and toggle are kept
    budget           \* gestures the user still makes, Unlimited if not counted

vars == <<storage, activeTabIndex, tabsOf, activeTab, events, handlers,
          done, last, toggle, watch, budget>>

\* ------------------------------------------------------------ sequences
Range(s) == {s[k] : k \in 1..Len(s)}
Includes(s, x) == x \in Range(s)
Without(s, x) == SelectSeq(s, LAMBDA id : id # x)
WithoutAll(s, xs) == SelectSeq(s, LAMBDA id : ~Includes(xs, id))
NoDuplicates(s) == \A j, k \in 1..Len(s) : j # k => s[j] # s[k]
IndexOf(s, x) == CHOOSE k \in 1..Len(s) : s[k] = x
Smaller(a, b) == IF a < b THEN a ELSE b
StartsWith(s, p) == Len(s) >= Len(p) /\ SubSeq(s, 1, Len(p)) = p

\* ---------------------------------------------------------- the table
EmptyTable == [w \in {} |-> <<>>]
\* tabsByWindow[windowId] || []
RecentTabsOf(tbl, windowId) == IF windowId \in DOMAIN tbl THEN tbl[windowId] ELSE <<>>
\* tabsByWindow[windowId] = tabs
TableSet(tbl, windowId, tabs) ==
    [w \in DOMAIN tbl \cup {windowId} |-> IF w = windowId THEN tabs ELSE tbl[w]]
\* A variant of TableDelete that empties the entry and keeps the key.
TableEmptied(tbl, windowId) ==
    [w \in DOMAIN tbl \cup {windowId} |-> IF w = windowId THEN <<>> ELSE tbl[w]]

\* delete tabsByWindow[windowId]
TableDelete(tbl, windowId) == [w \in DOMAIN tbl \ {windowId} |-> tbl[w]]

\* getTabsByWindow: result[STORAGE_KEY] || {} (an unset key reads as the empty table)
getTabsByWindow == storage

\* ---------------------------------------------------------- the browser
Exists(t) == \E w \in Windows : Includes(tabsOf[w], t)
WindowOfTab(t) == CHOOSE w \in Windows : Includes(tabsOf[w], t)
OpenWindows == {w \in Windows : tabsOf[w] # <<>>}
\* tab.index of chrome.tabs.get / chrome.tabs.query: 0-based strip position
TabIndex(t) == IndexOf(tabsOf[WindowOfTab(t)], t) - 1

Event(type, tabId, windowId, isWindowClosing) ==
    [type |-> type, tabId |-> tabId, windowId |-> windowId,
     isWindowClosing |-> isWindowClosing]

\* chrome.tabs.update(tabId, {active: true}) on an existing tab: the tab becomes
\* its window's active tab and, when that is a change, onActivated is queued.
ActiveAfterUpdate(t) == [activeTab EXCEPT ![WindowOfTab(t)] = t]
EventsAfterUpdate(evs, t) ==
    IF activeTab[WindowOfTab(t)] = t THEN evs
    ELSE Append(evs, Event("activated", t, WindowOfTab(t), FALSE))

\* ------------------------------------------------------------ listeners
Idle ==
    [kind |-> "idle", pc |-> "idle", tabId |-> NoTab, windowId |-> NoTab,
     isWindowClosing |-> FALSE, recentTabs |-> <<>>, tabsByWindow |-> EmptyTable, i |-> 0,
     invalidTabIds |-> <<>>, wasActiveTab |-> FALSE, allTabs |-> <<>>,
     targetTab |-> NoTab, outcome |-> "none",
     pre |-> EmptyTable, tried |-> <<>>, activeAtStart |-> NoTab, repeat |-> FALSE,
     hint |-> Null, windows |-> EmptyTable]

NoneYet ==
    [kind |-> "none", tabId |-> NoTab, windowId |-> NoTab, isWindowClosing |-> FALSE,
     pre |-> EmptyTable, post |-> EmptyTable, tried |-> <<>>, outcome |-> "none",
     activeAtStart |-> NoTab, repeat |-> FALSE,
     hint |-> Null, allTabs |-> <<>>, windows |-> EmptyTable,
     before |-> [kind |-> "none", tabId |-> NoTab, windowId |-> NoTab,
                 post |-> EmptyTable, tried |-> <<>>]]

Brief(d) ==
    [kind |-> d.kind, tabId |-> d.tabId, windowId |-> d.windowId, post |-> d.post,
     tried |-> d.tried]

\* A listener invocation as it starts on event e.  pre, repeat, tried and hint
\* are kept for the observations only: the table at the start, whether the
\* invocation that returned last was for the same event on the same table,
\* the chrome.tabs.update calls made with their results, and the value of
\* activeTabIndex the removal listener tested.
Started(kind, pc, e) ==
    [Idle EXCEPT !.kind = kind, !.pc = pc, !.tabId = e.tabId,
                 !.windowId = e.windowId, !.isWindowClosing = e.isWindowClosing,
                 !.pre = storage,
                 !.repeat = (/\ last.kind = kind
                             /\ last.tabId = e.tabId
                             /\ last.windowId = e.windowId
                             /\ last.post = storage)]

\* What a returning invocation leaves for the observations; before is the
\* invocation that returned before this one (when last is kept).
Summary(hr, post, outcome) ==
    [kind |-> hr.kind, tabId |-> hr.tabId, windowId |-> hr.windowId,
     isWindowClosing |-> hr.isWindowClosing, pre |-> hr.pre, post |-> post,
     tried |-> hr.tried, outcome |-> outcome, activeAtStart |-> hr.activeAtStart,
     repeat |-> hr.repeat, hint |-> hr.hint, allTabs |-> hr.allTabs,
     windows |-> hr.windows, before |-> last]

ToggleOff == [phase |-> 0, windowId |-> NoTab, a |-> NoTab, b |-> NoTab]

\* The round-trip observer.  Phase 1: a switch returned in a window whose
\* history began <<a, b>> with a active and both tabs existing.  Phase 2: the
\* next listener to return recorded the activation of b in that window.
\* Phase 3: the next one was a switch in that window, a still existing.
\* Phase 4: the next one recorded the activation of a.  Anything else resets it.
ToggleStep(tg, d) ==
    LET hist == RecentTabsOf(d.pre, d.windowId)
        fresh == IF /\ d.kind = "command"
                    /\ Len(hist) >= 2
                    /\ d.activeAtStart = hist[1]
                    /\ Exists(hist[1])
                    /\ Exists(hist[2])
                 THEN [phase |-> 1, windowId |-> d.windowId, a |-> hist[1], b |-> hist[2]]
                 ELSE ToggleOff
        next == [tg EXCEPT !.phase = tg.phase + 1]
    IN  CASE tg.phase = 1 /\ d.kind = "activated" /\ d.windowId = tg.windowId
                  /\ d.tabId = tg.b -> next
          [] tg.phase = 2 /\ d.kind = "command" /\ d.windowId = tg.windowId
                  /\ Exists(tg.a) -> next
          [] tg.phase = 3 /\ d.kind = "activated" /\ d.windowId = tg.windowId
                  /\ d.tabId = tg.a -> next
          [] OTHER -> fresh

\* The invocation with locals hr returns.
Finish(hr, post, outcome) ==
    LET d == Summary(hr, post, outcome)
    IN  /\ done' = d
        /\ last' = IF "last" \in watch THEN Brief(d) ELSE last
        /\ toggle' = IF "toggle" \in watch THEN ToggleStep(toggle, d) ELSE toggle
        /\ UNCHANGED <<watch, budget>>

\* A step in which no invocation returns.
Quiet == done' = NoneYet /\ UNCHANGED <<last, toggle, watch, budget>>

\* A gesture of the user: one of the budget, when there is one.
Unlimited == Null
Gesture ==
    /\ budget # 0
    /\ budget' = IF budget = Unlimited THEN budget ELSE budget - 1
    /\ done' = NoneYet
    /\ UNCHANGED <<last, toggle, watch>>

Browser == <<tabsOf, activeTab>>

\* --- chrome.tabs.onActivated listener ---------------------------------
\* The listener starts on the event at the head of the queue and suspends at
\* `await chrome.tabs.get(tabId)`.
OnActivated(h) ==
    /\ handlers[h].pc = "idle"
    /\ events # <<>>
    /\ Head(events).type = "activated"
    /\ events' = Tail(events)
    /\ handlers' = [handlers EXCEPT ![h] =
          [Started("activated", "tabs_get", Head(events))
             EXCEPT !.activeAtStart = activeTab[Head(events).windowId]]]
    /\ UNCHANGED <<storage, activeTabIndex, Browser>>
    /\ Quiet

\* try { activeTabIndex = (await chrome.tabs.get(tabId)).index } catch { null }
ActivatedGetTab(h) ==
    /\ handlers[h].pc = "tabs_get"
    /\ activeTabIndex' = IF Exists(handlers[h].tabId) THEN TabIndex(handlers[h].tabId)
                         ELSE Null
    /\ handlers' = [handlers EXCEPT ![h].pc = "activated_read"]
    /\ UNCHANGED <<storage, Browser, events>>
    /\ Quiet

\* Variants of PushFront with one statement of the listener left out or changed.
PushFrontNoSlice(recentTabs, tabId) == <<tabId>> \o Without(recentTabs, tabId)

PushFrontNoFilter(recentTabs, tabId) ==
    LET pushed == <<tabId>> \o recentTabs
    IN  IF Len(pushed) > MaxRecent THEN SubSeq(pushed, 1, MaxRecent) ELSE pushed

PushBack(recentTabs, tabId) ==
    LET pushed == Append(Without(recentTabs, tabId), tabId)
    IN  IF Len(pushed) > MaxRecent THEN SubSeq(pushed, 1, MaxRecent) ELSE pushed

\* filter out tabId, unshift it, keep the first MaxRecent
PushFront(recentTabs, tabId) ==
    LET pushed == <<tabId>> \o Without(recentTabs, tabId)
    IN  IF Len(pushed) > MaxRecent THEN SubSeq(pushed, 1, MaxRecent) ELSE pushed

\* recentTabs = await getRecentTabsForWindow(windowId), then the synchronous
\* filter / unshift / slice, up to the await inside setRecentTabsForWindow.
ActivatedRead(h) ==
    /\ handlers[h].pc = "activated_read"
    /\ handlers' = [handlers EXCEPT
          ![h].recentTabs = PushFront(RecentTabsOf(getTabsByWindow, handlers[h].windowId),
                                      handlers[h].tabId),
          ![h].outcome = "recorded",
          ![h].pc = "set_read"]
    /\ UNCHANGED <<storage, activeTabIndex, Browser, events>>
    /\ Quiet

\* --- setRecentTabsForWindow --------------------------------------------
\* const tabsByWindow = await getTabsByWindow(); tabsByWindow[windowId] = tabs
SetRecentRead(h) ==
    /\ handlers[h].pc = "set_read"
    /\ handlers' = [handlers EXCEPT
          ![h].tabsByWindow = TableSet(getTabsByWindow, handlers[h].windowId,
                                       handlers[h].recentTabs),
          ![h].pc = "set_write"]
    /\ UNCHANGED <<storage, activeTabIndex, Browser, events>>
    /\ Quiet

\* Variants of GoesOnToReplace that drop one half of the test.
ReplacesWithoutHint(hr, hint) == hr.kind = "removed" /\ hr.wasActiveTab

ReplacesAnyRemoved(hr, hint) == hr.kind = "removed" /\ hint # Null

\* if (wasActiveTab && activeTabIndex !== null) in the removal listener
GoesOnToReplace(hr, hint) == hr.kind = "removed" /\ hr.wasActiveTab /\ hint # Null

\* await setTabsByWindow(tabsByWindow), and what the caller does next: the
\* activation listener and switchToPreviousTab return; the removal listener
\* tests `wasActiveTab && activeTabIndex !== null` and goes on to tabs.query.
SetRecentWrite(h) ==
    LET hr == handlers[h]
        tested == IF hr.kind = "removed" THEN [hr EXCEPT !.hint = activeTabIndex] ELSE hr
    IN  /\ hr.pc = "set_write"
        /\ storage' = hr.tabsByWindow
        /\ IF ~GoesOnToReplace(hr, activeTabIndex)
           THEN /\ handlers' = [handlers EXCEPT ![h] = Idle]
                /\ Finish(tested, hr.tabsByWindow, hr.outcome)
           ELSE /\ handlers' = [handlers EXCEPT ![h] = [tested EXCEPT !.pc = "tabs_query"]]
                /\ Quiet
        /\ UNCHANGED <<activeTabIndex, Browser, events>>

\* --- chrome.tabs.onRemoved listener ------------------------------------
\* A variant that ignores isWindowClosing.
NeverReturnsAtOnce(e) == FALSE

\* if (isWindowClosing) { return; }
ReturnsAtOnce(e) == e.isWindowClosing

\* `if (isWindowClosing) return;` ends the listener before its first await;
\* otherwise it suspends in getRecentTabsForWindow.
OnRemoved(h) ==
    LET e == Head(events)
        hr == [Started("removed", "removed_read", e)
                 EXCEPT !.activeAtStart = activeTab[e.windowId]]
    IN  /\ handlers[h].pc = "idle"
        /\ events # <<>>
        /\ e.type = "removed"
        /\ events' = Tail(events)
        /\ IF ReturnsAtOnce(e)
           THEN /\ Finish(hr, storage, "windowClosing")
                /\ UNCHANGED handlers
           ELSE /\ handlers' = [handlers EXCEPT ![h] = hr]
                /\ Quiet
        /\ UNCHANGED <<storage, activeTabIndex, Browser>>

\* recentTabs = await getRecentTabsForWindow(windowId);
\* wasActiveTab = recentTabs[0] === tabId; recentTabs = recentTabs.filter(...)
RemovedRead(h) ==
    LET hr == handlers[h]
        recentTabs == RecentTabsOf(getTabsByWindow, hr.windowId)
    IN  /\ hr.pc = "removed_read"
        /\ handlers' = [handlers EXCEPT
              ![h].wasActiveTab = (recentTabs # <<>> /\ recentTabs[1] = hr.tabId),
              ![h].recentTabs = Without(recentTabs, hr.tabId),
              ![h].outcome = "removed",
              ![h].pc = "set_read"]
        /\ UNCHANGED <<storage, activeTabIndex, Browser, events>>
    /\ Quiet

\* A variant of TargetIndex that takes the last tab whatever the hint.
LastIndex(hint, length) == length - 1

\* Math.min(activeTabIndex, allTabs.length - 1); a hint reset to null since the
\* test before the await counts as 0 in Math.min.
TargetIndex(hint, length) ==
    LET n == IF hint = Null THEN 0 ELSE hint
    IN  IF n < length - 1 THEN n ELSE length - 1

\* A variant of QueryTabs without the windowId filter: the tabs of every window.
RECURSIVE StripsFrom(_)
StripsFrom(w) == IF w \in Windows THEN tabsOf[w] \o StripsFrom(w + 1) ELSE <<>>
QueryEveryWindow(windowId) == StripsFrom(1)

\* chrome.tabs.query({ windowId }): the tabs of the window in strip order, none
\* for a window that is closed.
QueryTabs(windowId) == tabsOf[windowId]

\* allTabs = await chrome.tabs.query({ windowId }); the target is the tab whose
\* index is targetIndex; with no tabs or no target the listener returns.
RemovedQuery(h) ==
    LET hr == handlers[h]
        allTabs == QueryTabs(hr.windowId)
        targetTab == IF Len(allTabs) > 0
                     THEN allTabs[TargetIndex(activeTabIndex, Len(allTabs)) + 1]
                     ELSE NoTab
    IN  /\ hr.pc = "tabs_query"
        /\ IF targetTab # NoTab
           THEN /\ handlers' = [handlers EXCEPT ![h].allTabs = allTabs,
                                                ![h].targetTab = targetTab,
                                                ![h].pc = "removed_update"]
                /\ Quiet
           ELSE /\ handlers' = [handlers EXCEPT ![h] = Idle]
                /\ Finish([hr EXCEPT !.allTabs = allTabs], storage, "noTarget")
        /\ UNCHANGED <<storage, activeTabIndex, Browser, events>>

\* A variant of UpdateOutcome without the catch: the rejection leaves the
\* listener as an unhandled error.
UpdateOutcomeUncaught(ok) == IF ok THEN "replaced" ELSE "error"

\* try { await chrome.tabs.update(...) } catch (error) { console.error(...) }
UpdateOutcome(ok) == IF ok THEN "replaced" ELSE "replaceFailed"

\* await chrome.tabs.update(targetTab.id, { active: true }); a rejection is
\* caught and logged.
RemovedUpdate(h) ==
    LET hr == handlers[h]
        ok == Exists(hr.targetTab)
        after == [hr EXCEPT !.tried = Append(hr.tried, <<hr.targetTab, ok>>)]
        activeNow == IF ok THEN ActiveAfterUpdate(hr.targetTab) ELSE activeTab
    IN  /\ hr.pc = "removed_update"
        /\ activeTab' = activeNow
        /\ events' = IF ok THEN EventsAfterUpdate(events, hr.targetTab) ELSE events
        /\ handlers' = [handlers EXCEPT ![h] = Idle]
        /\ Finish(after, storage, UpdateOutcome(ok))
        /\ UNCHANGED <<storage, activeTabIndex, tabsOf>>

\* --- chrome.windows.onRemoved listener --------------------------------
OnWindowRemoved(h) ==
    /\ handlers[h].pc = "idle"
    /\ events # <<>>
    /\ Head(events).type = "windowRemoved"
    /\ events' = Tail(events)
    /\ handlers' = [handlers EXCEPT ![h] =
          Started("windowRemoved", "window_read", Head(events))]
    /\ UNCHANGED <<storage, activeTabIndex, Browser>>
    /\ Quiet

\* const tabsByWindow = await getTabsByWindow(); delete tabsByWindow[windowId]
WindowRemovedRead(h) ==
    /\ handlers[h].pc = "window_read"
    /\ handlers' = [handlers EXCEPT
          ![h].tabsByWindow = TableDelete(getTabsByWindow, handlers[h].windowId),
          ![h].pc = "window_write"]
    /\ UNCHANGED <<storage, activeTabIndex, Browser, events>>
    /\ Quiet

\* await setTabsByWindow(tabsByWindow)
WindowRemovedWrite(h) ==
    /\ handlers[h].pc = "window_write"
    /\ storage' = handlers[h].tabsByWindow
    /\ handlers' = [handlers EXCEPT ![h] = Idle]
    /\ Finish(handlers[h], handlers[h].tabsByWindow, "windowRemoved")
    /\ UNCHANGED <<activeTabIndex, Browser, events>>

\* --- chrome.commands.onCommand listener, switchToPreviousTab ----------
OnCommand(h) ==
    /\ handlers[h].pc = "idle"
    /\ events # <<>>
    /\ Head(events).type = "command"
    /\ events' = Tail(events)
    /\ handlers' = [handlers EXCEPT ![h] =
          Started("command", "get_current", Head(events))]
    /\ UNCHANGED <<storage, activeTabIndex, Browser>>
    /\ Quiet

\* currentWindow = await chrome.windows.getCurrent(): one of the open windows,
\* or none; `if (!currentWindow.id) return`.
SwitchGetCurrent(h) ==
    /\ handlers[h].pc = "get_current"
    /\ IF OpenWindows = {}
       THEN /\ handlers' = [handlers EXCEPT ![h] = Idle]
            /\ Finish(handlers[h], storage, "NoCurrentWindow")
       ELSE /\ \E w \in OpenWindows :
                 handlers' = [handlers EXCEPT ![h].windowId = w,
                                              ![h].activeAtStart = activeTab[w],
                                              ![h].pc = "switch_read"]
            /\ Quiet
    /\ UNCHANGED <<storage, activeTabIndex, Browser, events>>

\* Variants of the scan's start: the loop starts at the entry of the active
\* tab; a history too short to switch is written back.
FromTheFront == 1 - 1

AfterReadWritesBack(hr, recentTabs) ==
    IF Len(recentTabs) < 2
    THEN [hr EXCEPT !.recentTabs = recentTabs, !.outcome = "NotEnoughHistory",
                    !.pc = "set_read"]
    ELSE [hr EXCEPT !.recentTabs = recentTabs, !.i = 1, !.pc = "switch_try"]

\* `if (recentTabs.length < 2)`
MinHistory == 2

\* `for (let i = 1; ...`
FirstCandidate == 1

\* After recentTabs = await getRecentTabsForWindow(currentWindow.id):
\* `if (recentTabs.length < 2) return`; otherwise the loop is entered at
\* i = 1 when `i < recentTabs.length`, and with nothing to try the function
\* falls through the loop and the `invalidTabIds.length > 0` test and returns.
AfterRead(hr, recentTabs) ==
    IF Len(recentTabs) < MinHistory
    THEN [hr EXCEPT !.outcome = "NotEnoughHistory", !.pc = "return"]
    ELSE IF FirstCandidate < Len(recentTabs)
         THEN [hr EXCEPT !.recentTabs = recentTabs, !.i = FirstCandidate,
                         !.pc = "switch_try"]
         ELSE [hr EXCEPT !.recentTabs = recentTabs, !.outcome = "NothingToTry",
                         !.pc = "return"]

SwitchRead(h) ==
    LET hr == handlers[h]
        after == AfterRead(hr, RecentTabsOf(getTabsByWindow, hr.windowId))
    IN  /\ hr.pc = "switch_read"
        /\ IF after.pc = "return"
           THEN /\ handlers' = [handlers EXCEPT ![h] = Idle]
                /\ Finish(after, storage, after.outcome)
           ELSE /\ handlers' = [handlers EXCEPT ![h] = after]
                /\ Quiet
        /\ UNCHANGED <<storage, activeTabIndex, Browser, events>>

\* Variants of AfterTry: the scan gives up at the first stale candidate (as
\* the earlier switchToPreviousTab did); a success leaves the stale ids in the
\* history; a scan that found nothing leaves them too.
AfterTryGivesUp(hr, ok) ==
    LET tabId == hr.recentTabs[hr.i + 1]
        t == [hr EXCEPT !.tried = Append(hr.tried, <<tabId, ok>>)]
    IN  IF ok
        THEN [t EXCEPT !.outcome = "Switched", !.pc = "return"]
        ELSE [t EXCEPT !.invalidTabIds = <<tabId>>,
                       !.recentTabs = Without(hr.recentTabs, tabId),
                       !.outcome = "AllStale", !.pc = "set_read"]

AfterTryNoCleanupOnSuccess(hr, ok) ==
    LET tabId == hr.recentTabs[hr.i + 1]
        t == [hr EXCEPT !.tried = Append(hr.tried, <<tabId, ok>>)]
        invalid == Append(hr.invalidTabIds, tabId)
    IN  IF ok
        THEN [t EXCEPT !.outcome = "Switched", !.pc = "return"]
        ELSE IF hr.i + 1 < Len(hr.recentTabs)
             THEN [t EXCEPT !.invalidTabIds = invalid, !.i = hr.i + 1]
             ELSE [t EXCEPT !.invalidTabIds = invalid,
                            !.recentTabs = WithoutAll(hr.recentTabs, invalid),
                            !.outcome = "AllStale", !.pc = "set_read"]

AfterTryNoFinalCleanup(hr, ok) ==
    LET tabId == hr.recentTabs[hr.i + 1]
        t == [hr EXCEPT !.tried = Append(hr.tried, <<tabId, ok>>)]
        invalid == Append(hr.invalidTabIds, tabId)
    IN  IF ok
        THEN IF Len(hr.invalidTabIds) > 0
             THEN [t EXCEPT !.recentTabs = WithoutAll(hr.recentTabs, hr.invalidTabIds),
                            !.outcome = "Switched", !.pc = "set_read"]
             ELSE [t EXCEPT !.outcome = "Switched", !.pc = "return"]
        ELSE IF hr.i + 1 < Len(hr.recentTabs)
             THEN [t EXCEPT !.invalidTabIds = invalid, !.i = hr.i + 1]
             ELSE [t EXCEPT !.invalidTabIds = invalid,
                            !.outcome = "AllStale", !.pc = "return"]

\* What one turn of `for (let i = 1; i < recentTabs.length; i++)` leaves when
\* `await chrome.tabs.update(recentTabs[i], { active: true })` resolves (ok) or
\* rejects: on success the stale ids found so far are filtered out and written
\* (or the function returns at once when there are none); on failure the id
\* is pushed on invalidTabIds and the loop goes on, and after the last turn
\* the stale ids are filtered out and written.
AfterTry(hr, ok) ==
    LET tabId == hr.recentTabs[hr.i + 1]
        t == [hr EXCEPT !.tried = Append(hr.tried, <<tabId, ok>>)]
        invalid == Append(hr.invalidTabIds, tabId)
    IN  IF ok
        THEN IF Len(hr.invalidTabIds) > 0
             THEN [t EXCEPT !.recentTabs = WithoutAll(hr.recentTabs, hr.invalidTabIds),
                            !.outcome = "Switched", !.pc = "set_read"]
             ELSE [t EXCEPT !.outcome = "Switched", !.pc = "return"]
        ELSE IF hr.i + 1 < Len(hr.recentTabs)
             THEN [t EXCEPT !.invalidTabIds = invalid, !.i = hr.i + 1]
             ELSE [t EXCEPT !.invalidTabIds = invalid,
                            !.recentTabs = WithoutAll(hr.recentTabs, invalid),
                            !.outcome = "AllStale", !.pc = "set_read"]

SwitchTry(h) ==
    LET hr == handlers[h]
        tabId == hr.recentTabs[hr.i + 1]
        ok == Exists(tabId)
        after == AfterTry(hr, ok)
        activeNow == IF ok THEN ActiveAfterUpdate(tabId) ELSE activeTab
    IN  /\ hr.pc = "switch_try"
        /\ activeTab' = activeNow
        /\ events' = IF ok THEN EventsAfterUpdate(events, tabId) ELSE events
        /\ IF after.pc = "return"
           THEN /\ handlers' = [handlers EXCEPT ![h] = Idle]
                /\ Finish(after, storage, after.outcome)
           ELSE /\ handlers' = [handlers EXCEPT ![h] = after]
                /\ Quiet
        /\ UNCHANGED <<storage, activeTabIndex, tabsOf>>

\* --- chrome.runtime.onInstalled listener -------------------------------
OnInstalled(h) ==
    /\ handlers[h].pc = "idle"
    /\ events # <<>>
    /\ Head(events).type = "installed"
    /\ events' = Tail(events)
    /\ handlers' = [handlers EXCEPT ![h] =
          Started("installed", "get_all", Head(events))]
    /\ UNCHANGED <<storage, activeTabIndex, Browser>>
    /\ Quiet

\* chrome.windows.getAll({ populate: true }), as window id |-> active tab: the
\* open windows and the windows that are closing (their windows.onRemoved is
\* still to be dispatched), which have no tabs left and so no active tab.
ClosingWindows ==
    {w \in Windows : \E k \in 1..Len(events) :
        events[k].type = "windowRemoved" /\ events[k].windowId = w}
AllWindows == [w \in OpenWindows \cup ClosingWindows |-> activeTab[w]]

\* A variant of TableOfActive that starts from the table in storage.
TableOfActiveMerged(windows) ==
    [w \in DOMAIN storage \cup {x \in DOMAIN windows : windows[x] # NoTab} |->
        IF w \in DOMAIN windows /\ windows[w] # NoTab THEN <<windows[w]>> ELSE storage[w]]

\* tabsByWindow = {}; for each window with an active tab:
\* tabsByWindow[window.id] = [activeTab.id]
TableOfActive(windows) ==
    [w \in {x \in DOMAIN windows : windows[x] # NoTab} |-> <<windows[w]>>]

\* windows = await chrome.windows.getAll({ populate: true }) and the loop that
\* builds the table, up to the await of setTabsByWindow.
InstalledGetAll(h) ==
    /\ handlers[h].pc = "get_all"
    /\ handlers' = [handlers EXCEPT
          ![h].windows = AllWindows,
          ![h].tabsByWindow = TableOfActive(AllWindows),
          ![h].pc = "installed_write"]
    /\ UNCHANGED <<storage, activeTabIndex, Browser, events>>
    /\ Quiet

\* await setTabsByWindow(tabsByWindow)
InstalledWrite(h) ==
    /\ handlers[h].pc = "installed_write"
    /\ storage' = handlers[h].tabsByWindow
    /\ handlers' = [handlers EXCEPT ![h] = Idle]
    /\ Finish(handlers[h], handlers[h].tabsByWindow, "installed")
    /\ UNCHANGED <<activeTabIndex, Browser, events>>

\* The service worker is stopped while no listener runs and started again on
\* the next event: `let activeTabIndex = null` runs again.
WorkerRestart ==
    /\ \A h \in DOMAIN handlers : handlers[h].pc = "idle"
    /\ activeTabIndex # Null
    /\ activeTabIndex' = Null
    /\ UNCHANGED <<storage, Browser, events, handlers>>
    /\ Quiet

\* --- the browser ---------------------------------------------------------
\* The user focuses a tab of a window: onActivated(tabId, windowId).
UserActivate(w, t) ==
    /\ Len(events) < MaxQueue
    /\ Includes(tabsOf[w], t)
    /\ activeTab' = [activeTab EXCEPT ![w] = t]
    /\ events' = Append(events, Event("activated", t, w, FALSE))
    /\ UNCHANGED <<storage, activeTabIndex, tabsOf, handlers>>
    /\ Gesture

\* The user closes a tab that is not the last of its window:
\* onRemoved(tabId, {windowId, isWindowClosing: false}); when it was the active
\* tab the browser picks a new active tab itself and reports it after the removal.
CloseTab(w, t) ==
    LET rest == Without(tabsOf[w], t)
        gone == Event("removed", t, w, FALSE)
    IN  /\ Includes(tabsOf[w], t)
        /\ rest # <<>>
        /\ tabsOf' = [tabsOf EXCEPT ![w] = rest]
        /\ IF activeTab[w] = t
           THEN \E n \in Range(rest) :
                  /\ activeTab' = [activeTab EXCEPT ![w] = n]
                  /\ events' = events \o <<gone, Event("activated", n, w, FALSE)>>
           ELSE /\ events' = Append(events, gone)
                /\ UNCHANGED activeTab
        /\ UNCHANGED <<storage, activeTabIndex, handlers>>
    /\ Gesture

UserCloseTab(w, t) == Len(events) < MaxQueue /\ CloseTab(w, t)

\* The user closes a window: onRemoved with isWindowClosing for each of its
\* tabs, then windows.onRemoved.
CloseWindow(w) ==
    /\ tabsOf[w] # <<>>
    /\ events' = events
          \o [k \in 1..Len(tabsOf[w]) |-> Event("removed", tabsOf[w][k], w, TRUE)]
          \o <<Event("windowRemoved", NoTab, w, FALSE)>>
    /\ tabsOf' = [tabsOf EXCEPT ![w] = <<>>]
    /\ activeTab' = [activeTab EXCEPT ![w] = NoTab]
    /\ UNCHANGED <<storage, activeTabIndex, handlers>>
    /\ Gesture

UserCloseWindow(w) == Len(events) < MaxQueue /\ CloseWindow(w)

\* The user closes a tab or a window while a removal listener is suspended in
\* chrome.tabs.query or chrome.tabs.update; the activation the browser reported
\* after the first close may still be in the queue.
Replacing == \E h \in DOMAIN handlers : handlers[h].pc \in {"tabs_query", "removed_update"}
CloseTabMeanwhile(w, t) == Replacing /\ Len(events) <= MaxQueue /\ CloseTab(w, t)
CloseWindowMeanwhile(w) == Replacing /\ Len(events) <= MaxQueue /\ CloseWindow(w)

\* The user presses the key chord of the "switch-tabs" command.
UserCommand ==
    /\ Len(events) < MaxQueue
    /\ events' = Append(events, Event("command", NoTab, NoTab, FALSE))
    /\ UNCHANGED <<storage, activeTabIndex, Browser, handlers>>
    /\ Gesture

\* The extension is installed or updated: runtime.onInstalled.
Install ==
    /\ Len(events) < MaxQueue
    /\ events' = Append(events, Event("installed", NoTab, NoTab, FALSE))
    /\ UNCHANGED <<storage, activeTabIndex, Browser, handlers>>
    /\ Gesture

\* ------------------------------------------------------------ initial states
OneSlot == [h \in {1} |-> Idle]
\* Two listener invocations may be suspended at the same time.
TwoSlots == [h \in {1, 2} |-> Idle]

\* Tabs 1..n1 in window 1 and the next n2 tabs in window 2, the first tab of a
\* window active.
Layout(n1, n2) ==
    [w \in Windows |-> IF w = 1 THEN [k \in 1..n1 |-> k]
                       ELSE IF w = 2 THEN [k \in 1..n2 |-> n1 + k]
                       ELSE <<>>]

\* The worker idle with no event pending, over the tab strips, the table and
\* the hint given; the user makes at most n gestures (any number if Unlimited).
Start(strips, table, hint, slots, watched, n) ==
    /\ storage = table
    /\ activeTabIndex = hint
    /\ tabsOf = strips
    /\ activeTab = [w \in Windows |-> IF strips[w] = <<>> THEN NoTab ELSE strips[w][1]]
    /\ events = <<>>
    /\ handlers = slots
    /\ done = NoneYet
    /\ last = Brief(NoneYet)
    /\ toggle = ToggleOff
    /\ watch = watched
    /\ budget = n

\* A fresh browser session: empty session storage, a freshly started worker
\* (no hint, no listener running, no event pending).
Fresh(strips, slots, watched) ==
    Start(strips, EmptyTable, Null, slots, watched, Unlimited)

\* The table after the user has visited the tabs of every window from the
\* right end of the strip to the left, each activation recorded before the
\* next: the first MaxRecent tabs of the strip, the leftmost (active) one first.
Visited(strips) ==
    [w \in {x \in Windows : strips[x] # <<>>} |->
        SubSeq(strips[w], 1, Smaller(Len(strips[w]), MaxRecent))]

Listeners ==
    \/ \E h \in DOMAIN handlers : OnActivated(h)
    \/ \E h \in DOMAIN handlers : ActivatedGetTab(h)
    \/ \E h \in DOMAIN handlers : ActivatedRead(h)
    \/ \E h \in DOMAIN handlers : SetRecentRead(h)
    \/ \E h \in DOMAIN handlers : SetRecentWrite(h)
    \/ \E h \in DOMAIN handlers : OnRemoved(h)
    \/ \E h \in DOMAIN handlers : RemovedRead(h)
    \/ \E h \in DOMAIN handlers : RemovedQuery(h)
    \/ \E h \in DOMAIN handlers : RemovedUpdate(h)
    \/ \E h \in DOMAIN handlers : OnWindowRemoved(h)
    \/ \E h \in DOMAIN handlers : WindowRemovedRead(h)
    \/ \E h \in DOMAIN handlers : WindowRemovedWrite(h)
    \/ \E h \in DOMAIN handlers : OnCommand(h)
    \/ \E h \in DOMAIN handlers : SwitchGetCurrent(h)
    \/ \E h \in DOMAIN handlers : SwitchRead(h)
    \/ \E h \in DOMAIN handlers : SwitchTry(h)
    \/ \E h \in DOMAIN handlers : OnInstalled(h)
    \/ \E h \in DOMAIN handlers : InstalledGetAll(h)
    \/ \E h \in DOMAIN handlers : InstalledWrite(h)

\* The whole system, listeners running one after another.
Init == Fresh(Layout(NumTabs - 3, 2), OneSlot, {})

Next ==
    \/ \E w \in Windows, t \in Tabs : UserActivate(w, t)
    \/ \E w \in Windows, t \in Tabs : UserCloseTab(w, t)
    \/ \E w \in Windows : UserCloseWindow(w)
    \/ UserCommand
    \/ Install
    \/ WorkerRestart
    \/ Listeners

Spec == Init /\ [][Next]_vars

\* Activations only: NumTabs tabs in window 1 (one more than a history holds)
\* and one tab in window 2; listeners run one after another.
InitAct == Fresh(Layout(NumTabs, 1), OneSlot, {"last"})

NextAct ==
    \/ \E w \in Windows, t \in Tabs : UserActivate(w, t)
    \/ \E h \in DOMAIN handlers : OnActivated(h)
    \/ \E h \in DOMAIN handlers : ActivatedGetTab(h)
    \/ \E h \in DOMAIN handlers : ActivatedRead(h)
    \/ \E h \in DOMAIN handlers : SetRecentRead(h)
    \/ \E h \in DOMAIN handlers : SetRecentWrite(h)

SpecAct == InitAct /\ [][NextAct]_vars

\* C1: under activation events handled one after another, every history in
\* the table has at most MaxRecent (4) entries and no tab identifier twice.
HistoryBoundedNoDuplicates ==
    \A w \in DOMAIN storage :
        Len(storage[w]) <= MaxRecent /\ NoDuplicates(storage[w])

\* C1 witness: an activation of the oldest entry of a full history returned.
ReactivatedOldestOfFull ==
    /\ done.kind = "activated"
    /\ Len(RecentTabsOf(done.pre, done.windowId)) = MaxRecent
    /\ RecentTabsOf(done.pre, done.windowId)[MaxRecent] = done.tabId
    /\ Len(RecentTabsOf(storage, done.windowId)) = MaxRecent

\* C2: when the activation listener for (windowId, tabId) has returned, tabId
\* is the first entry of the window's history.
ActivatedTabIsFirst ==
    done.kind = "activated" =>
        /\ RecentTabsOf(storage, done.windowId) # <<>>
        /\ RecentTabsOf(storage, done.windowId)[1] = done.tabId

\* C2 witness: the activated tab was not in the full history it was put in
\* front of, and the window's oldest entry was dropped.
ActivatedIntoFullHistory ==
    /\ done.kind = "activated"
    /\ Len(RecentTabsOf(done.pre, done.windowId)) = MaxRecent
    /\ ~Includes(RecentTabsOf(done.pre, done.windowId), done.tabId)
    /\ storage[done.windowId] =
          <<done.tabId>> \o SubSeq(done.pre[done.windowId], 1, MaxRecent - 1)

\* C9: an activation listener that runs for the same (windowId, tabId) as the
\* listener that returned just before it, on the table that one left, leaves
\* the table as it found it.
SecondActivationChangesNothing ==
    (done.kind = "activated" /\ done.repeat) =>
        (done.post = done.pre /\ storage = last.post)

\* C9 witness: such a second activation returned, in a history of several tabs.
ActivatedTwiceInARow ==
    /\ done.kind = "activated"
    /\ done.repeat
    /\ Len(RecentTabsOf(done.pre, done.windowId)) >= 3

\* Switching: activations, tab closes and the command, in a window of
\* NumTabs - 2 tabs and a window of one tab; listeners run one after another.
InitSwitch == Fresh(Layout(NumTabs - 2, 1), OneSlot, {})

NextSwitch ==
    \/ \E w \in Windows, t \in Tabs : UserActivate(w, t)
    \/ \E w \in Windows, t \in Tabs : UserCloseTab(w, t)
    \/ UserCommand
    \/ \E h \in DOMAIN handlers : OnActivated(h)
    \/ \E h \in DOMAIN handlers : ActivatedGetTab(h)
    \/ \E h \in DOMAIN handlers : ActivatedRead(h)
    \/ \E h \in DOMAIN handlers : SetRecentRead(h)
    \/ \E h \in DOMAIN handlers : SetRecentWrite(h)
    \/ \E h \in DOMAIN handlers : OnRemoved(h)
    \/ \E h \in DOMAIN handlers : RemovedRead(h)
    \/ \E h \in DOMAIN handlers : RemovedQuery(h)
    \/ \E h \in DOMAIN handlers : RemovedUpdate(h)
    \/ \E h \in DOMAIN handlers : OnCommand(h)
    \/ \E h \in DOMAIN handlers : SwitchGetCurrent(h)
    \/ \E h \in DOMAIN handlers : SwitchRead(h)
    \/ \E h \in DOMAIN handlers : SwitchTry(h)

SpecSwitch == InitSwitch /\ [][NextSwitch]_vars

\* The history the switch that just returned started from, the candidates it
\* found stale, and whether one of its chrome.tabs.update calls succeeded.
SwitchHistory == RecentTabsOf(done.pre, done.windowId)
SwitchFailed == {done.tried[k][1] : k \in {j \in 1..Len(done.tried) : ~done.tried[j][2]}}
SwitchSucceeded == \E k \in 1..Len(done.tried) : done.tried[k][2]
Scanned == done.kind = "command" /\ Len(SwitchHistory) >= 2

\* C3: a switch on a history of at least 2 entries tries the entries at
\* positions 1, 2, ... in that order and never the one at position 0; it goes
\* on after a failure and stops only at a success or after the last entry; so
\* it activates a tab whenever one of the entries at positions 1..end exists,
\* namely the existing one at the lowest position.
ScanFindsFirstExisting ==
    Scanned =>
        /\ Len(done.tried) \in 1..(Len(SwitchHistory) - 1)
        /\ \A k \in 1..Len(done.tried) :
              /\ done.tried[k][1] = SwitchHistory[k + 1]
              /\ done.tried[k][1] # SwitchHistory[1]
              /\ (k < Len(done.tried) => ~done.tried[k][2])
              /\ (~done.tried[k][2] => ~Exists(done.tried[k][1]))
        /\ (~SwitchSucceeded => Len(done.tried) = Len(SwitchHistory) - 1)
        /\ ((\E k \in 2..Len(SwitchHistory) : Exists(SwitchHistory[k])) => SwitchSucceeded)
        /\ (SwitchSucceeded <=> done.outcome = "Switched")

\* C3 witness: the scan went past a stale candidate and activated the next.
ScanWentPastStale ==
    /\ Scanned
    /\ Len(done.tried) = 2
    /\ ~done.tried[1][2]
    /\ done.tried[2][2]
    /\ activeTab[done.windowId] = SwitchHistory[3]

\* C4: after a successful switch the window's history is the history before
\* the call without the candidates that failed, the other entries in their
\* order; with no failed candidate the table is unchanged.
SuccessRemovesExactlyFailed ==
    (Scanned /\ done.outcome = "Switched") =>
        /\ RecentTabsOf(storage, done.windowId) =
              SelectSeq(SwitchHistory, LAMBDA id : id \notin SwitchFailed)
        /\ (SwitchFailed = {} => storage = done.pre)

\* C4 witness: a history <<a, b, c>> with b gone and c present became <<a, c>>.
StaleMiddleEntryRemoved ==
    /\ Scanned
    /\ done.outcome = "Switched"
    /\ Len(SwitchHistory) = 3
    /\ SwitchFailed = {SwitchHistory[2]}
    /\ storage[done.windowId] = <<SwitchHistory[1], SwitchHistory[3]>>

\* C5: when every candidate of a switch on a history of at least 2 entries
\* fails, the outcome is AllStale, every candidate was tried, and the window's
\* history is the one-element list of the former first entry.
AllStaleLeavesOnlyFirst ==
    (Scanned /\ ~SwitchSucceeded) =>
        /\ done.outcome = "AllStale"
        /\ Len(done.tried) = Len(SwitchHistory) - 1
        /\ \A k \in 2..Len(SwitchHistory) : ~Exists(SwitchHistory[k])
        /\ RecentTabsOf(storage, done.windowId) = <<SwitchHistory[1]>>
        /\ done.windowId \in DOMAIN storage

\* C5 witness: a switch found its only candidate stale.
OnlyCandidateStale ==
    /\ Scanned
    /\ done.outcome = "AllStale"
    /\ done.tried = <<<<SwitchHistory[2], FALSE>>>>
    /\ storage[done.windowId] = <<SwitchHistory[1]>>

\* C6: a switch in a window whose history has fewer than 2 entries (no entry,
\* an empty one, one tab) returns NotEnoughHistory, calls chrome.tabs.update
\* for no tab and leaves the whole table as it was.
ShortHistoryIsNoOp ==
    (done.kind = "command" /\ done.windowId # NoTab /\ Len(SwitchHistory) < 2) =>
        /\ done.outcome = "NotEnoughHistory"
        /\ done.tried = <<>>
        /\ storage = done.pre

\* C6 witness: a switch returned in a window with a history of one tab while
\* the other window had no entry.
SwitchOnSingleEntry ==
    /\ done.kind = "command"
    /\ done.outcome = "NotEnoughHistory"
    /\ Len(SwitchHistory) = 1
    /\ DOMAIN storage = {done.windowId}

\* Closing: activations, tab closes and window closes, in a window of
\* NumTabs - 3 tabs and a window of two; listeners run one after another.
InitClose == Fresh(Layout(NumTabs - 3, 2), OneSlot, {})

NextClose ==
    \/ \E w \in Windows, t \in Tabs : UserActivate(w, t)
    \/ \E w \in Windows, t \in Tabs : UserCloseTab(w, t)
    \/ \E w \in Windows : UserCloseWindow(w)
    \/ \E h \in DOMAIN handlers : OnActivated(h)
    \/ \E h \in DOMAIN handlers : ActivatedGetTab(h)
    \/ \E h \in DOMAIN handlers : ActivatedRead(h)
    \/ \E h \in DOMAIN handlers : SetRecentRead(h)
    \/ \E h \in DOMAIN handlers : SetRecentWrite(h)
    \/ \E h \in DOMAIN handlers : OnRemoved(h)
    \/ \E h \in DOMAIN handlers : RemovedRead(h)
    \/ \E h \in DOMAIN handlers : RemovedQuery(h)
    \/ \E h \in DOMAIN handlers : RemovedUpdate(h)
    \/ \E h \in DOMAIN handlers : OnWindowRemoved(h)
    \/ \E h \in DOMAIN handlers : WindowRemovedRead(h)
    \/ \E h \in DOMAIN handlers : WindowRemovedWrite(h)

SpecClose == InitClose /\ [][NextClose]_vars

\* C7: the removal listener called with isWindowClosing = true leaves the table
\* as it was and calls chrome.tabs.update for no tab.
WindowClosingRemovalIsNoOp ==
    (done.kind = "removed" /\ done.isWindowClosing) =>
        /\ storage = done.pre
        /\ done.tried = <<>>
        /\ done.outcome = "windowClosing"

\* C7 witness: the removal of the first entry of a window's history was
\* reported with isWindowClosing and the history still holds it.
ClosingRemovalOfFirstEntry ==
    /\ done.kind = "removed"
    /\ done.isWindowClosing
    /\ Len(RecentTabsOf(storage, done.windowId)) >= 2
    /\ storage[done.windowId][1] = done.tabId

\* C8: when the window-removal listener has returned, the table has no entry
\* for the window, whether it had one or not, and a read of the window's
\* history gives the empty list.
RemovedWindowHasNoEntry ==
    done.kind = "windowRemoved" =>
        /\ done.outcome = "windowRemoved"
        /\ done.windowId \notin DOMAIN storage
        /\ RecentTabsOf(getTabsByWindow, done.windowId) = <<>>
        /\ DOMAIN storage = DOMAIN done.pre \ {done.windowId}
        /\ \A w \in DOMAIN storage : storage[w] = done.pre[w]

\* C8 witness: the entry of a closed window was deleted and the entry of the
\* other window kept.
WindowEntryDeleted ==
    /\ done.kind = "windowRemoved"
    /\ done.windowId \in DOMAIN done.pre
    /\ done.windowId \notin DOMAIN storage
    /\ DOMAIN storage # {}

\* The same for a window that never had an entry.
WindowWithoutEntryRemoved ==
    /\ done.kind = "windowRemoved"
    /\ done.windowId \notin DOMAIN done.pre
    /\ done.windowId \notin DOMAIN storage

\* Toggling: one window of NumTabs - 2 tabs, activations, tab closes and the
\* command; listeners run one after another and the round trip is observed.
InitToggle == Fresh(Layout(NumTabs - 2, 0), OneSlot, {"toggle"})

SpecToggle == InitToggle /\ [][NextSwitch]_vars

\* C10: in a window whose history begins <<a, b>> with a active and both tabs
\* existing, a switch activates b; once the activation of b is recorded the
\* history begins <<b, a>>; the next switch activates a; once the activation
\* of a is recorded the history begins <<a, b>> again.
ToggleRoundTrip ==
    LET w == toggle.windowId
        history == RecentTabsOf(storage, w)
    IN  /\ (done.kind = "command" /\ toggle.phase = 1) =>
              (done.tried = <<<<toggle.b, TRUE>>>> /\ activeTab[w] = toggle.b)
        /\ (done.kind = "activated" /\ toggle.phase = 2) =>
              StartsWith(history, <<toggle.b, toggle.a>>)
        /\ (done.kind = "command" /\ toggle.phase = 3) =>
              (done.tried = <<<<toggle.a, TRUE>>>> /\ activeTab[w] = toggle.a)
        /\ (done.kind = "activated" /\ toggle.phase = 4) =>
              StartsWith(history, <<toggle.a, toggle.b>>)

\* C10 witness: a round trip was completed in a history of three tabs.
RoundTripCompleted ==
    /\ done.kind = "activated"
    /\ toggle.phase = 4
    /\ Len(RecentTabsOf(storage, toggle.windowId)) = 3
    /\ activeTab[toggle.windowId] = toggle.a

\* ------------------------------------------------- the removal listener
\* Activations and closes of tabs and windows, handled one event after
\* another, with restarts of the worker in between.
RemoveStrips == Layout(NumTabs - 2, 1)
InitRemove == Fresh(RemoveStrips, OneSlot, {})

NextRemove ==
    \/ \E w \in Windows, t \in Tabs : UserActivate(w, t)
    \/ \E w \in Windows, t \in Tabs : UserCloseTab(w, t)
    \/ \E w \in Windows, t \in Tabs : CloseTabMeanwhile(w, t)
    \/ \E w \in Windows : CloseWindowMeanwhile(w)
    \/ WorkerRestart
    \/ \E h \in DOMAIN handlers : OnActivated(h)
    \/ \E h \in DOMAIN handlers : ActivatedGetTab(h)
    \/ \E h \in DOMAIN handlers : ActivatedRead(h)
    \/ \E h \in DOMAIN handlers : SetRecentRead(h)
    \/ \E h \in DOMAIN handlers : SetRecentWrite(h)
    \/ \E h \in DOMAIN handlers : OnRemoved(h)
    \/ \E h \in DOMAIN handlers : RemovedRead(h)
    \/ \E h \in DOMAIN handlers : RemovedQuery(h)
    \/ \E h \in DOMAIN handlers : RemovedUpdate(h)
    \/ \E h \in DOMAIN handlers : OnWindowRemoved(h)
    \/ \E h \in DOMAIN handlers : WindowRemovedRead(h)
    \/ \E h \in DOMAIN handlers : WindowRemovedWrite(h)

SpecRemove == InitRemove /\ [][NextRemove]_vars

\* What the removal listener that just returned found and did.
RemovalDone == done.kind = "removed" /\ ~done.isWindowClosing
RemovedHistory == RecentTabsOf(done.pre, done.windowId)
RemovedWasFirst == RemovedHistory # <<>> /\ RemovedHistory[1] = done.tabId

\* C11: a removal (window not closing) of the tab that was first in its
\* window's history, with the position hint present, calls chrome.tabs.update
\* exactly once, on the tab at position min(hint, number of remaining tabs - 1)
\* of the tabs chrome.tabs.query returned; that tab is the window's active tab
\* afterwards unless it was closed in between (then the call is rejected).
RemovalReplacesByPosition ==
    (RemovalDone /\ RemovedWasFirst /\ done.hint # Null /\ done.allTabs # <<>>)
    => LET target == done.allTabs[Smaller(done.hint, Len(done.allTabs) - 1) + 1]
       IN  /\ done.tried = <<<<target, Exists(target)>>>>
           /\ Exists(target) => activeTab[done.windowId] = target

\* The replacement went to a tab that is not the second most recent of the
\* history, which still exists.
ReplacementNotFromHistory ==
    /\ RemovalDone /\ RemovedWasFirst
    /\ Len(RemovedHistory) >= 2
    /\ Exists(RemovedHistory[2])
    /\ done.outcome = "replaced"
    /\ done.tried[1][1] # RemovedHistory[2]

\* C15: when a removal (window not closing) has been handled, the window's
\* history is the history from before without the removed tab, the other
\* entries in their order, and the listener has returned normally: with the
\* replacement skipped, made, without a target, or rejected and logged.
RemovalFiltersAndReturns ==
    RemovalDone =>
        /\ RecentTabsOf(storage, done.windowId)
              = SelectSeq(RemovedHistory, LAMBDA id : id # done.tabId)
        /\ done.outcome \in {"removed", "replaced", "noTarget", "replaceFailed"}

\* The replacement was rejected; the removed tab had been in a history of
\* three, and the two others are left.
RemovalSurvivedRejection ==
    /\ RemovalDone
    /\ done.outcome = "replaceFailed"
    /\ Includes(RemovedHistory, done.tabId)
    /\ Len(RecentTabsOf(storage, done.windowId)) >= 2

RemovalSkippedReplacement ==
    RemovalDone /\ done.outcome = "removed" /\ Includes(RemovedHistory, done.tabId)

RemovalFoundNoTarget == RemovalDone /\ done.outcome = "noTarget"

\* C16: the removal listener calls chrome.tabs.update only when the removed
\* tab was first in the window's history before the filter and the hint was
\* not null at the test; in every other case it makes no call, changes no
\* active tab and returns after writing the filtered history.
ReplacesOnlyFirstWithHint ==
    RemovalDone =>
        IF RemovedWasFirst /\ done.hint # Null
        THEN done.outcome # "removed"
        ELSE done.tried = <<>> /\ done.outcome = "removed"

\* The removed tab was first in the history and there was no hint.
RemovalWithoutHint ==
    RemovalDone /\ RemovedWasFirst /\ done.hint = Null /\ done.tried = <<>>

\* There was a hint and the removed tab was in the history, not first.
RemovalOfOlderEntry ==
    /\ RemovalDone /\ ~RemovedWasFirst /\ done.hint # Null
    /\ Includes(RemovedHistory, done.tabId)

\* C20: a tab the removal listener calls chrome.tabs.update on is a tab of the
\* window as chrome.tabs.query listed it, at a position the list has, and not
\* the removed tab; when the call succeeds the tab is a tab of the window and
\* its active tab.
ReplacementIsTabOfWindow ==
    (RemovalDone /\ done.tried # <<>>) =>
        LET target == done.tried[1][1]
        IN  /\ target # done.tabId
            /\ \E k \in 0..(Len(done.allTabs) - 1) : done.allTabs[k + 1] = target
            /\ Includes(RemoveStrips[done.windowId], target)
            /\ done.tried[1][2] =>
                  Includes(tabsOf[done.windowId], target) /\ activeTab[done.windowId] = target

\* The hint was recorded in another window: the removed tab is first in the
\* history, so it was the last one activated in its window, no other tab of
\* the window has been closed, so its index never changed, and the hint is not
\* that index.
ReplacementWithForeignHint ==
    /\ RemovalDone /\ RemovedWasFirst
    /\ done.outcome = "replaced"
    /\ done.allTabs = SelectSeq(RemoveStrips[done.windowId], LAMBDA id : id # done.tabId)
    /\ done.hint # IndexOf(RemoveStrips[done.windowId], done.tabId) - 1

\* The hint is larger than the last index of the tabs left.
ReplacementWithLargeHint ==
    RemovalDone /\ done.outcome = "replaced" /\ done.hint > Len(done.allTabs) - 1

\* ------------------------------------------------------- runtime.onInstalled
\* Up to MaxGestures activations, window closes and installs, with up to two
\* listener invocations in flight, their steps interleaved.
InitInstall ==
    Start(Layout(NumTabs - 3, 1), EmptyTable, Null, TwoSlots, {}, MaxGestures)

NextInstall ==
    \/ \E w \in Windows, t \in Tabs : UserActivate(w, t)
    \/ \E w \in Windows : UserCloseWindow(w)
    \/ Install
    \/ \E h \in DOMAIN handlers : OnActivated(h)
    \/ \E h \in DOMAIN handlers : ActivatedGetTab(h)
    \/ \E h \in DOMAIN handlers : ActivatedRead(h)
    \/ \E h \in DOMAIN handlers : SetRecentRead(h)
    \/ \E h \in DOMAIN handlers : SetRecentWrite(h)
    \/ \E h \in DOMAIN handlers : OnRemoved(h)
    \/ \E h \in DOMAIN handlers : OnWindowRemoved(h)
    \/ \E h \in DOMAIN handlers : WindowRemovedRead(h)
    \/ \E h \in DOMAIN handlers : WindowRemovedWrite(h)
    \/ \E h \in DOMAIN handlers : OnInstalled(h)
    \/ \E h \in DOMAIN handlers : InstalledGetAll(h)
    \/ \E h \in DOMAIN handlers : InstalledWrite(h)

SpecInstall == InitInstall /\ [][NextInstall]_vars

InstallDone == done.kind = "installed"
WithActiveTab == {w \in DOMAIN done.windows : done.windows[w] # NoTab}

\* C12: when the install listener returns, the table is exactly: every window
\* chrome.windows.getAll listed with an active tab |-> the one-entry history of
\* that tab.  Listed windows without an active tab have no entry, and no entry
\* of the table as it was before survives, whether its window was listed or not.
InstallReplacesTable ==
    InstallDone =>
        /\ DOMAIN storage = WithActiveTab
        /\ \A w \in WithActiveTab : storage[w] = <<done.windows[w]>>

\* The table held a history for a window that was not listed any more, and a
\* listed window got its entry.
InstallDroppedStaleEntry ==
    /\ InstallDone
    /\ \E w \in DOMAIN done.pre : w \notin DOMAIN done.windows
    /\ WithActiveTab # {}

\* The table held another history for a window that was listed.
InstallReplacedEntry ==
    /\ InstallDone
    /\ \E w \in DOMAIN done.pre \cap WithActiveTab : done.pre[w] # storage[w]

\* A listed window had no active tab, and a history before.
InstallSkippedWindowWithoutTab ==
    /\ InstallDone
    /\ \E w \in DOMAIN done.windows \cap DOMAIN done.pre : done.windows[w] = NoTab

\* ------------------------------------------------------- interleavings
\* Up to MaxGestures activations and closes of tabs and windows, with up to
\* two listener invocations in flight, their steps interleaved.
InitRace ==
    Start(Layout(NumTabs - 3, 1), EmptyTable, Null, TwoSlots, {}, MaxGestures)

NextRace ==
    \/ \E w \in Windows, t \in Tabs : UserActivate(w, t)
    \/ \E w \in Windows, t \in Tabs : UserCloseTab(w, t)
    \/ \E w \in Windows : UserCloseWindow(w)
    \/ \E h \in DOMAIN handlers : OnActivated(h)
    \/ \E h \in DOMAIN handlers : ActivatedGetTab(h)
    \/ \E h \in DOMAIN handlers : ActivatedRead(h)
    \/ \E h \in DOMAIN handlers : SetRecentRead(h)
    \/ \E h \in DOMAIN handlers : SetRecentWrite(h)
    \/ \E h \in DOMAIN handlers : OnRemoved(h)
    \/ \E h \in DOMAIN handlers : RemovedRead(h)
    \/ \E h \in DOMAIN handlers : RemovedQuery(h)
    \/ \E h \in DOMAIN handlers : RemovedUpdate(h)
    \/ \E h \in DOMAIN handlers : OnWindowRemoved(h)
    \/ \E h \in DOMAIN handlers : WindowRemovedRead(h)
    \/ \E h \in DOMAIN handlers : WindowRemovedWrite(h)

SpecRace == InitRace /\ [][NextRace]_vars

\* --------------------------------------------------- two events, one window
\* Up to MaxGestures activations, with up to two invocations of the activation
\* listener in flight, over a table that holds a history for each window.
PairStrips == Layout(NumTabs - 2, 1)
InitPair == Start(PairStrips, Visited(PairStrips), Null, TwoSlots, {"last"}, MaxGestures)

NextPair ==
    \/ \E w \in Windows, t \in Tabs : UserActivate(w, t)
    \/ \E h \in DOMAIN handlers : OnActivated(h)
    \/ \E h \in DOMAIN handlers : ActivatedGetTab(h)
    \/ \E h \in DOMAIN handlers : ActivatedRead(h)
    \/ \E h \in DOMAIN handlers : SetRecentRead(h)
    \/ \E h \in DOMAIN handlers : SetRecentWrite(h)

SpecPair == InitPair /\ [][NextPair]_vars

\* No listener runs and no event is pending.
Quiescent == events = <<>> /\ \A h \in DOMAIN handlers : handlers[h].pc = "idle"

\* C13: once a window is closed, its windows.onRemoved has been handled and
\* every listener has returned (none in flight, no event pending, so no later
\* event names the window), the table has no entry for the window.  Stated in
\* its weakest reading: the entry is absent or, what reads the same, empty.
ClosedWindowHasNoEntry ==
    \A w \in Windows :
        (Quiescent /\ tabsOf[w] = <<>>) => RecentTabsOf(storage, w) = <<>>

\* The second of exactly two activation events of one window has just been
\* handled, the first before it, and nothing else happened.
PairHandled ==
    /\ Quiescent
    /\ budget = MaxGestures - 2
    /\ done.kind = "activated"
    /\ done.before.kind = "activated"
    /\ done.before.windowId = done.windowId
    /\ done.before.tabId # done.tabId
ToFront(h, t) ==
    LET moved == <<t>> \o SelectSeq(h, LAMBDA id : id # t)
    IN  SubSeq(moved, 1, Smaller(Len(moved), MaxRecent))
PairHistory == Visited(PairStrips)[done.windowId]
InOrder(x, y) == ToFront(ToFront(PairHistory, x), y)

\* C14: after two activation events x and y of one window, handled with their
\* listeners interleaved, the window's history is one of the two sequential
\* results or reflects only one of the two updates (the other is lost) -
\* nothing else.
PairOutcomes ==
    PairHandled =>
        storage[done.windowId] \in
            {InOrder(done.before.tabId, done.tabId), InOrder(done.tabId, done.before.tabId),
             ToFront(PairHistory, done.tabId), ToFront(PairHistory, done.before.tabId)}

\* The lost update: the final history differs from both sequential orders.
LostUpdate ==
    /\ PairHandled
    /\ storage[done.windowId] # InOrder(done.before.tabId, done.tabId)
    /\ storage[done.windowId] # InOrder(done.tabId, done.before.tabId)

\* Slot h performs its write of the table in this step.
Writes(h) ==
    /\ handlers[h].pc \in {"set_write", "window_write"}
    /\ handlers'[h].pc # handlers[h].pc

\* C18: the write of an activation, removal or switch listener for window w,
\* and of the window-removal listener for w, leaves the history of every
\* other window as it was in the table just before the write - also with a
\* second listener in flight.
OtherWindowsUntouched ==
    [][\A h \in DOMAIN handlers : Writes(h) =>
          \A w \in Windows \ {handlers[h].windowId} :
              RecentTabsOf(storage', w) = RecentTabsOf(storage, w)]_vars

\* ------------------------------------------------------- switch and activation
\* Switches and closes of tabs over a window with a history of all its tabs,
\* with up to two listener invocations in flight, their steps interleaved.  The
\* user activates no tab: every onActivated comes from chrome.tabs.update or
\* from the browser replacing a closed active tab.
SwitchRaceStrips == Layout(NumTabs - 2, 0)
InitSwitchRace ==
    Start(SwitchRaceStrips, Visited(SwitchRaceStrips), Null, TwoSlots, {"last"},
          MaxGestures - 1)

NextSwitchRace ==
    \/ \E w \in Windows, t \in Tabs : UserCloseTab(w, t)
    \/ UserCommand
    \/ \E h \in DOMAIN handlers : OnActivated(h)
    \/ \E h \in DOMAIN handlers : ActivatedGetTab(h)
    \/ \E h \in DOMAIN handlers : ActivatedRead(h)
    \/ \E h \in DOMAIN handlers : SetRecentRead(h)
    \/ \E h \in DOMAIN handlers : SetRecentWrite(h)
    \/ \E h \in DOMAIN handlers : OnRemoved(h)
    \/ \E h \in DOMAIN handlers : RemovedRead(h)
    \/ \E h \in DOMAIN handlers : RemovedQuery(h)
    \/ \E h \in DOMAIN handlers : RemovedUpdate(h)
    \/ \E h \in DOMAIN handlers : OnCommand(h)
    \/ \E h \in DOMAIN handlers : SwitchGetCurrent(h)
    \/ \E h \in DOMAIN handlers : SwitchRead(h)
    \/ \E h \in DOMAIN handlers : SwitchTry(h)

SpecSwitchRace == InitSwitchRace /\ [][NextSwitchRace]_vars

\* sw is a switch that failed on at least one candidate and then activated c;
\* act is the activation listener for c in the same window.
CleanedSwitchTo(sw, act, c) ==
    /\ sw.kind = "command"
    /\ Len(sw.tried) >= 2
    /\ sw.tried[Len(sw.tried)] = <<c, TRUE>>
    /\ act.kind = "activated"
    /\ act.windowId = sw.windowId
    /\ act.tabId = c

\* C19: when a switch that cleaned up stale candidates and activated tab c and
\* the activation listener for c have both returned, in either order, and no
\* listener is in flight, c being the window's active tab, the window's
\* history begins with c.
SwitchedTabIsFirst ==
    \A c \in Tabs :
        (/\ Quiescent
         /\ CleanedSwitchTo(done, done.before, c) \/ CleanedSwitchTo(done.before, done, c)
         /\ activeTab[done.windowId] = c)
        => StartsWith(RecentTabsOf(storage, done.windowId), <<c>>)

\* ------------------------------------------------------- every listener
\* Gestures of any kind (two fewer than MaxGestures) over a window with a full
\* history and one tab more, with up to two listener invocations in flight,
\* their steps interleaved; a close of the active tab and a switch bring a
\* second event with them.
AllStrips == Layout(NumTabs, 0)
InitAll == Start(AllStrips, Visited(AllStrips), Null, TwoSlots, {}, MaxGestures - 2)

SpecAll == InitAll /\ [][Next]_vars

====
